---- MODULE Spec2Model ----
(***************************************************************************)
(* Model of the calendar summarisation pipeline of resumo_calendario_teams *)
(* (src/app.py, the Streamlit entry point, and src/main.py, the terminal   *)
(* entry point, which duplicate the same functions).                       *)
(*                                                                         *)
(* Conventions.                                                            *)
(*  - A Python dict is a function whose DOMAIN is the set of keys present; *)
(*    d.get(k, default) is Get(d, k, default).                             *)
(*  - Python None / pandas NaT is the record Nulo where a record is        *)
(*    expected and the string NoneStr where a string is expected.          *)
(*  - A local variable not yet assigned is Nao; an assigned one is Som(v). *)
(*  - A date is its proleptic ordinal (date.toordinal()); an instant is a  *)
(*    number of hours, 24 * ordinal + hour.                                *)
(*  - A text built by str.join is the sequence of its pieces.              *)
(***************************************************************************)
EXTENDS Integers, Sequences, FiniteSets, TLC

VARIABLES
    entry,                          \* "app" (src/app.py) or "main" (src/main.py)
    pc,                             \* position of the run
    hoje,                           \* dt.date.today() read by escolher_periodo
    periodo_opcao,                  \* selector handed to escolher_periodo
    periodo_data_inicial,
    periodo_data_final,
    periodo_data_inicial_anterior,
    periodo_data_final_anterior,
    combinados_texto,
    janela,                         \* which get_calendar_events call is running
    access_token, url, params, events,   \* locals of get_calendar_events
    served,                         \* "value" arrays of the pages answered in this call
    links,                          \* "@odata.nextLink" of the pages answered in this call
    requests,                       \* requests issued by this call, in order
    token_requests,                 \* token requests issued by the run so far
    llm_requests,                   \* language-model requests issued by the run so far
    falha_http,                     \* the first request answered with a status other than 200
    reunioes_atual, reunioes_anterior,
    df_reunioes, df_reunioes_anterior,
    df_reunioes_br, df_reunioes_anterior_br,
    texto_reunioes, texto_reunioes_anterior,
    respostas_json, raw_text,
    completion,                     \* message content the language model returned
    df_reunioes_br_2,               \* the canonicalizer applied to its own result
    session_state,                  \* st.session_state of the browser session
    pagina,                         \* page the last run of main() rendered
    evento,                         \* the last thing the user did in the browser
    erro                            \* the exception that ended the run, if any

vars == <<entry, pc, hoje, periodo_opcao, periodo_data_inicial, periodo_data_final,
          periodo_data_inicial_anterior, periodo_data_final_anterior, combinados_texto,
          janela, access_token, url, params, events, served, links, requests,
          token_requests, llm_requests, falha_http,
          reunioes_atual, reunioes_anterior, df_reunioes, df_reunioes_anterior,
          df_reunioes_br, df_reunioes_anterior_br, texto_reunioes,
          texto_reunioes_anterior, respostas_json, raw_text, completion,
          df_reunioes_br_2, session_state, pagina, evento, erro>>

-----------------------------------------------------------------------------
(* Bounds of the model.                                                    *)

MaxPages == 2
MaxEvents == 2
NumDias == 7

-----------------------------------------------------------------------------
(* Python values.                                                          *)

EmptyDict == [k \in {} |-> k]
Get(d, k, default) == IF k \in DOMAIN d THEN d[k] ELSE default
Nulo == [nulo |-> TRUE]
NoneStr == "None"
isna(x) == "nulo" \in DOMAIN x
Nao == [def |-> FALSE]
Som(x) == [def |-> TRUE, v |-> x]

\* an optional key k whose value, when present, is drawn from Vs
Campo(k, Vs) == {EmptyDict} \cup {k :> x : x \in Vs}
Junta(A, B) == {a @@ b : a \in A, b \in B}

RECURSIVE Join(_, _)
Join(partes, sep) ==
    IF Len(partes) = 0 THEN <<>>
    ELSE IF Len(partes) = 1 THEN <<partes[1]>>
    ELSE <<partes[1], sep>> \o Join(Tail(partes), sep)

SeqsAte(S, n) == UNION {[1..k -> S] : k \in 0..n}

-----------------------------------------------------------------------------
(* Instants.  An ISO-8601 text is [hora, zona]: zona "naive" when the text *)
(* carries no offset.  A Timestamp is [utc, tz]: for a zone-aware one utc  *)
(* is the instant in UTC, for a naive one (tz = "naive") it is the wall    *)
(* clock reading.                                                          *)

FimHorarioVerao == 22 * 24 + 12

\* offset from UTC, in hours, of zone tz at UTC instant utc
UtcOffset(tz, utc) ==
    CASE tz = "America/Sao_Paulo" -> IF utc < FimHorarioVerao THEN -2 ELSE -3
      [] tz = "+02:00" -> 2
      [] tz = "-05:00" -> -5
      [] OTHER -> 0

to_datetime(iso) ==
    IF iso.zona = "naive" THEN [utc |-> iso.hora, tz |-> "naive"]
    ELSE [utc |-> iso.hora - UtcOffset(iso.zona, 0), tz |-> iso.zona]

\* truthiness of start.get("dateTime"): None and the empty text are false
DataHoraVerdadeira(raw) == ~isna(raw) /\ "vazia" \notin DOMAIN raw

TextoVazio == [vazia |-> TRUE]

-----------------------------------------------------------------------------
(* Event Normalizer: eventos_para_dataframe_v2.                            *)

Verdadeiro(s) == s # "" /\ s # NoneStr
Ou(a, b) == IF Verdadeiro(a) THEN a ELSE b

Colunas == {"user_id", "assunto", "organizador_nome", "organizador_email",
            "inicio_datetime", "inicio_timezone", "fim_datetime", "fim_timezone",
            "participantes_emails", "participantes_nomes", "local",
            "reuniao_online", "link_reuniao_online", "usuario_display_name",
            "usuario_upn"}

\* pd.DataFrame(linhas): the columns are the keys of the row dicts, so a
\* frame built from no rows has no columns at all
DataFrame(linhas) ==
    [columns |-> IF Len(linhas) = 0 THEN {} ELSE Colunas, rows |-> linhas]

\* ev["organizer"] in place of ev.get("organizer", {}): an absent key raises too
LinhaLevanta_indexa(ev) ==
    \/ "organizer" \notin DOMAIN ev
    \/ isna(Get(ev, "organizer", EmptyDict))
    \/ isna(Get(ev, "start", EmptyDict))
    \/ isna(Get(ev, "end", EmptyDict))
    \/ isna(Get(ev, "location", EmptyDict))

\* the keys whose value the loop dereferences with .get(): a null there raises
LinhaLevanta(ev) ==
    \/ isna(Get(ev, "organizer", EmptyDict))
    \/ isna(Get(ev, "start", EmptyDict))
    \/ isna(Get(ev, "end", EmptyDict))
    \/ isna(Get(ev, "location", EmptyDict))

participantes(attendees, campo) ==
    SelectSeq([i \in 1..Len(attendees) |->
                  Get(Get(attendees[i], "emailAddress", EmptyDict), campo, "")],
              LAMBDA s : s # "")

link_legado(ev) ==
    Ou(Get(ev, "onlineMeetingUrl", ""), Ou(Get(ev, "joinUrl", ""), ""))

\* the nested join link is looked up only under the explicit flag
link_reuniao_so_com_flag(ev) ==
    LET flag == "isOnlineMeeting" \in DOMAIN ev /\ ev["isOnlineMeeting"] = TRUE
        online_meeting == Get(ev, "onlineMeeting", EmptyDict)
        link1 == IF flag THEN link_legado(ev) ELSE ""
        link2 == IF flag /\ ~Verdadeiro(link1) /\ ~isna(online_meeting)
                 THEN Ou(Get(online_meeting, "joinUrl", ""), link1)
                 ELSE link1
    IN  [reuniao_online |-> flag, link_reuniao_online |-> link2]

link_reuniao(ev) ==
    LET flag == "isOnlineMeeting" \in DOMAIN ev /\ ev["isOnlineMeeting"] = TRUE
        link1 == IF flag THEN link_legado(ev) ELSE ""
        online_meeting == Get(ev, "onlineMeeting", EmptyDict)
        link2 == IF ~Verdadeiro(link1) /\ ~isna(online_meeting)
                 THEN Ou(Get(online_meeting, "joinUrl", ""), link1)
                 ELSE link1
    IN  [reuniao_online |-> flag \/ (~Verdadeiro(link1) /\ ~isna(online_meeting)
                                      /\ Verdadeiro(link2)),
         link_reuniao_online |-> link2]

Linha(ev, user_id, usuario_display_name, usuario_upn) ==
    LET organizer == Get(Get(ev, "organizer", EmptyDict), "emailAddress", EmptyDict)
        start == Get(ev, "start", EmptyDict)
        end == Get(ev, "end", EmptyDict)
        inicio_raw == Get(start, "dateTime", Nulo)
        fim_raw == Get(end, "dateTime", Nulo)
        attendees == Get(ev, "attendees", <<>>)
        online == link_reuniao(ev)
    IN  [user_id |-> user_id,
         assunto |-> Get(ev, "subject", "(sem assunto)"),
         organizador_nome |-> Get(organizer, "name", ""),
         organizador_email |-> Get(organizer, "address", ""),
         inicio_datetime |-> IF DataHoraVerdadeira(inicio_raw)
                             THEN to_datetime(inicio_raw) ELSE Nulo,
         inicio_timezone |-> Get(start, "timeZone", NoneStr),
         fim_datetime |-> IF DataHoraVerdadeira(fim_raw)
                          THEN to_datetime(fim_raw) ELSE Nulo,
         fim_timezone |-> Get(end, "timeZone", NoneStr),
         participantes_emails |-> Join(participantes(attendees, "address"), "; "),
         participantes_nomes |-> Join(participantes(attendees, "name"), "; "),
         local |-> Get(Get(ev, "location", EmptyDict), "displayName", ""),
         reuniao_online |-> online.reuniao_online,
         link_reuniao_online |-> online.link_reuniao_online,
         usuario_display_name |-> usuario_display_name,
         usuario_upn |-> usuario_upn]

\* [ok |-> TRUE, df |-> frame] or [ok |-> FALSE, erro |-> exception]
eventos_para_dataframe_v2(evs, user_id, usuario_display_name, usuario_upn) ==
    IF \E i \in 1..Len(evs) : LinhaLevanta(evs[i])
    THEN [ok |-> FALSE, erro |-> "AttributeError"]
    ELSE [ok |-> TRUE,
          df |-> DataFrame([i \in 1..Len(evs) |->
                     Linha(evs[i], user_id, usuario_display_name, usuario_upn)])]

-----------------------------------------------------------------------------
(* Timezone Canonicalizer: ajustar_horarios_brasilia.                      *)

\* the wall clock reading is taken for UTC whatever the zone of x
converter_sempre_replace(x) ==
    IF isna(x) THEN x
    ELSE LET wall == IF x.tz = "naive" THEN x.utc ELSE x.utc + UtcOffset(x.tz, x.utc)
         IN  [utc |-> wall, tz |-> "America/Sao_Paulo"]
converter_para_brasilia(x) ==
    IF isna(x) THEN x
    ELSE LET y == IF x.tz = "naive" THEN [utc |-> x.utc, tz |-> "UTC"] ELSE x
         IN  [utc |-> y.utc, tz |-> "America/Sao_Paulo"]

\* df["inicio_datetime"] and df["fim_datetime"] raise KeyError when the
\* column does not exist; the two timezone labels are guarded by a test
ajustar_horarios_brasilia(df) ==
    IF "inicio_datetime" \notin df.columns \/ "fim_datetime" \notin df.columns
    THEN [ok |-> FALSE, erro |-> "KeyError"]
    ELSE [ok |-> TRUE,
          df |-> [columns |-> df.columns,
                  rows |-> [i \in 1..Len(df.rows) |->
                      [df.rows[i] EXCEPT
                          !.inicio_datetime = converter_para_brasilia(@),
                          !.fim_datetime = converter_para_brasilia(@),
                          !.inicio_timezone =
                              IF "inicio_timezone" \in df.columns
                              THEN "America/Sao_Paulo" ELSE @,
                          !.fim_timezone =
                              IF "fim_timezone" \in df.columns
                              THEN "America/Sao_Paulo" ELSE @]]]]

-----------------------------------------------------------------------------
(* Narrative Synthesizer: gerar_texto_reunioes.                            *)

Lit(s) == [lit |-> s]

\* strftime("%d/%m/%Y %H:%M"): the wall clock reading in the instant's zone
strftime(x) ==
    LET wall == x.utc + UtcOffset(x.tz, x.utc)
    IN  [dia |-> wall \div 24, hora |-> wall % 24]

\* the instant is formatted without the pd.notna test: a null reads "NaT"
fragmento_sem_teste(row) ==
    [assunto |-> Ou(row.assunto, "(sem assunto)"),
     inicio_str |-> IF ~isna(row.inicio_datetime)
                    THEN strftime(row.inicio_datetime) ELSE Lit("NaT"),
     fim_str |-> IF ~isna(row.fim_datetime)
                 THEN strftime(row.fim_datetime) ELSE Lit("NaT")]
fragmento(row) ==
    LET assunto == Ou(row.assunto, "(sem assunto)")
        inicio_str == IF ~isna(row.inicio_datetime)
                      THEN strftime(row.inicio_datetime)
                      ELSE Lit("sem horário de início")
        fim_str == IF ~isna(row.fim_datetime)
                   THEN strftime(row.fim_datetime)
                   ELSE Lit("sem horário de término")
    IN  [assunto |-> assunto, inicio_str |-> inicio_str, fim_str |-> fim_str]

\* every fragment is followed by a space, the last one included
gerar_texto_reunioes_espaco_final(df) ==
    Join([i \in 1..Len(df.rows) |-> fragmento(df.rows[i])], Lit(" "))
        \o (IF Len(df.rows) = 0 THEN <<>> ELSE <<Lit(" ")>>)
gerar_texto_reunioes(df) ==
    Join([i \in 1..Len(df.rows) |-> fragmento(df.rows[i])], Lit(" "))

-----------------------------------------------------------------------------
(* Raw calendar events, as the calendar service delivers them.             *)

IsoInicioNaive == [hora |-> 22 * 24 + 10, zona |-> "naive"]
IsoInicioZona == [hora |-> 22 * 24 + 13, zona |-> "+02:00"]
IsoFimNaive == [hora |-> 22 * 24 + 14, zona |-> "naive"]
IsoFimZona == [hora |-> 22 * 24 + 9, zona |-> "-05:00"]

Pessoa == [name |-> "Ana", address |-> "ana@empresa.com"]

\* an event carrying every field
EventoCompleto ==
    [subject |-> "Planejamento",
     organizer |-> [emailAddress |-> Pessoa],
     start |-> [dateTime |-> IsoInicioNaive, timeZone |-> "UTC"],
     end |-> [dateTime |-> IsoFimNaive, timeZone |-> "UTC"],
     attendees |-> <<[emailAddress |-> Pessoa]>>,
     location |-> [displayName |-> "Sala 1"],
     isOnlineMeeting |-> TRUE,
     onlineMeetingUrl |-> "https://teams/omu",
     onlineMeeting |-> [joinUrl |-> "https://teams/nested"]]

\* an event carrying none of the optional fields
EventoMinimo == EmptyDict

EventosAmostra == {EventoCompleto, EventoMinimo}

\* every combination of the online-meeting fields, the rest as EventoMinimo
EventosOnline ==
    Junta(Campo("isOnlineMeeting", {TRUE, FALSE}),
    Junta(Campo("onlineMeetingUrl", {"", NoneStr, "https://teams/omu"}),
    Junta(Campo("joinUrl", {"", "https://teams/join"}),
          Campo("onlineMeeting", {Nulo, EmptyDict, [joinUrl |-> ""],
                                  [joinUrl |-> "https://teams/nested"]}))))

\* every combination of presence of the other optional fields
EventosCampos ==
    Junta(Campo("subject", {"", "Planejamento"}),
    Junta(Campo("organizer", {EmptyDict, [emailAddress |-> EmptyDict],
                              [emailAddress |-> Pessoa]}),
    Junta(Campo("start", {EmptyDict, [timeZone |-> "UTC"],
                          [dateTime |-> TextoVazio, timeZone |-> "UTC"],
                          [dateTime |-> IsoInicioNaive, timeZone |-> "UTC"],
                          [dateTime |-> IsoInicioZona]}),
    Junta(Campo("end", {[dateTime |-> IsoFimNaive, timeZone |-> "UTC"],
                        [dateTime |-> IsoFimZona]}),
    Junta(Campo("attendees", {<<>>,
                              <<[emailAddress |-> Pessoa],
                                [emailAddress |-> [name |-> "Bia"]],
                                [emailAddress |-> [address |-> "caio@empresa.com"]],
                                EmptyDict>>}),
          Campo("location", {EmptyDict, [displayName |-> "Sala 1"]}))))))

\* events in which a dereferenced field is present but null
EventosNulos ==
    {[organizer |-> Nulo], [start |-> Nulo], [end |-> Nulo], [location |-> Nulo]}

RawEvents == EventosOnline \cup EventosCampos \cup EventosNulos

Email == "ana@empresa.com"
Nome == "Ana"

-----------------------------------------------------------------------------
(* The person table and the session of the Streamlit entry point.  A text  *)
(* typed by the user is [corpo, caixa, brancos]: its body in lower case    *)
(* without surrounding blanks, whether it was typed with capitals, whether *)
(* with blanks around it.                                                  *)

Texto(s) == [corpo |-> s, caixa |-> FALSE, brancos |-> FALSE]

person ==
    {[id |-> 1, email |-> Email, nome |-> Nome, area |-> "Vendas", posicao |-> "Analista"],
     [id |-> 2, email |-> "bia@empresa.com", nome |-> "Bia", area |-> "TI",
      posicao |-> "Gerente"]}

ChavesDaSessao == {"logged_in", "email", "nome", "area", "cargo"}

\* the five assignments of pagina_login after login_db returned r
entrar_sessao(ss, r) ==
    [k \in DOMAIN ss \cup ChavesDaSessao |->
        CASE k = "logged_in" -> TRUE
          [] k = "email" -> r.email_norm
          [] k = "nome" -> r.nome
          [] k = "area" -> r.area
          [] k = "cargo" -> r.cargo
          [] OTHER -> ss[k]]

\* "Gerar resumo" is pressed on the main page, in the session of a user
\* who logged in
SessaoDoResumo ==
    entrar_sessao(EmptyDict, [email_norm |-> Texto(Email), nome |-> Nome,
                              area |-> "Vendas", cargo |-> "Analista"])

-----------------------------------------------------------------------------
(* Period Resolver: escolher_periodo.                                      *)

Dias == 22..(21 + NumDias)
\* date.isoweekday(): Monday = 1
weekday_iso(d) == ((d - 1) % 7) + 1

\* date.weekday(): Monday = 0; ordinal 1 (0001-01-01) is a Monday
weekday(d) == (d - 1) % 7

\* option 3 counts the seven days back from today, not from this week's Monday
escolher_periodo_sem_segunda(opcao, today) ==
    IF opcao = 1 THEN
        [ok |-> TRUE, inicial |-> today - 7, final |-> today]
    ELSE IF opcao = 2 THEN
        LET segunda == today - weekday(today)
            sexta == segunda + 4
        IN  [ok |-> TRUE, inicial |-> segunda, final |-> sexta]
    ELSE IF opcao = 3 THEN
        LET segunda_passada == today - 7
            sexta_passada == segunda_passada + 4
        IN  [ok |-> TRUE, inicial |-> segunda_passada, final |-> sexta_passada]
    ELSE [ok |-> FALSE]

\* an unrecognized selector falls back to the last seven days
escolher_periodo_padrao(opcao, today) ==
    IF opcao = 2 THEN
        LET segunda == today - weekday(today)
            sexta == segunda + 4
        IN  [ok |-> TRUE, inicial |-> segunda, final |-> sexta]
    ELSE IF opcao = 3 THEN
        LET segunda_atual == today - weekday(today)
            segunda_passada == segunda_atual - 7
            sexta_passada == segunda_passada + 4
        IN  [ok |-> TRUE, inicial |-> segunda_passada, final |-> sexta_passada]
    ELSE [ok |-> TRUE, inicial |-> today - 7, final |-> today]

\* [ok |-> TRUE, inicial, final] or [ok |-> FALSE]
escolher_periodo(opcao, today) ==
    IF opcao = 1 THEN
        [ok |-> TRUE, inicial |-> today - 7, final |-> today]
    ELSE IF opcao = 2 THEN
        LET segunda == today - weekday(today)
            sexta == segunda + 4
        IN  [ok |-> TRUE, inicial |-> segunda, final |-> sexta]
    ELSE IF opcao = 3 THEN
        LET segunda_atual == today - weekday(today)
            segunda_passada == segunda_atual - 7
            sexta_passada == segunda_passada + 4
        IN  [ok |-> TRUE, inicial |-> segunda_passada, final |-> sexta_passada]
    ELSE [ok |-> FALSE]

\* the comparison window moved back by the five days of a business week
periodo_anterior_5(d) == d - 5

\* the comparison window: both bounds of the primary window moved back
periodo_anterior(d) == d - 7

-----------------------------------------------------------------------------
(* The pipeline run: pagina_principal's "Gerar resumo" handler in          *)
(* src/app.py, main() after login in src/main.py.                          *)

Entradas == {"app", "main"}

\* selectors the entry point can hand over: the selectbox of src/app.py
\* offers 1, 2, 3; src/main.py reads any text, 4 standing for every text
\* other than "1", "2", "3"
Opcoes(e) == IF e = "app" THEN 1..3 ELSE 1..4

RunInit ==
    /\ hoje = Nao
    /\ periodo_opcao = Nao
    /\ periodo_data_inicial = Nao
    /\ periodo_data_final = Nao
    /\ periodo_data_inicial_anterior = Nao
    /\ periodo_data_final_anterior = Nao
    /\ combinados_texto = Nao
    /\ janela = "atual"
    /\ access_token = Nao
    /\ url = Nao
    /\ params = Nao
    /\ events = <<>>
    /\ served = <<>>
    /\ links = <<>>
    /\ requests = <<>>
    /\ token_requests = 0
    /\ llm_requests = 0
    /\ falha_http = Nao
    /\ reunioes_anterior = Nao
    /\ df_reunioes = Nao
    /\ df_reunioes_anterior = Nao
    /\ df_reunioes_br = Nao
    /\ df_reunioes_anterior_br = Nao
    /\ texto_reunioes = Nao
    /\ texto_reunioes_anterior = Nao
    /\ respostas_json = Nao
    /\ raw_text = Nao
    /\ completion = Nao
    /\ df_reunioes_br_2 = Nao
    /\ erro = Nao

Init ==
    /\ entry \in Entradas
    /\ pc = "inicio"
    /\ reunioes_atual = Nao
    /\ session_state = IF entry = "app" THEN SessaoDoResumo ELSE EmptyDict
    /\ pagina = IF entry = "app" THEN "principal" ELSE "nenhuma"
    /\ evento = [tipo |-> IF entry = "app" THEN "gerar" ELSE "nenhum"]
    /\ RunInit

varsPeriodo == <<hoje, periodo_opcao, periodo_data_inicial, periodo_data_final>>
varsAnterior == <<periodo_data_inicial_anterior, periodo_data_final_anterior>>
varsFetch == <<janela, access_token, url, params, events, served, links>>
varsReq == <<requests, token_requests, llm_requests, falha_http>>
varsReunioes == <<reunioes_atual, reunioes_anterior>>
varsDf == <<df_reunioes, df_reunioes_anterior>>
varsBr == <<df_reunioes_br, df_reunioes_anterior_br>>
varsTexto == <<texto_reunioes, texto_reunioes_anterior>>
varsResumo == <<respostas_json, raw_text, completion>>
varsFora == <<df_reunioes_br_2>>
varsUI == <<session_state, pagina, evento>>

\* an exception leaves the run: src/app.py catches it and shows one st.error,
\* src/main.py lets it end the process
Levanta(e) ==
    /\ erro' = Som(e)
    /\ pc' = "erro"

\* src/app.py raises ValueError, src/main.py prints and raises SystemExit(1)
ErroOpcao == IF entry = "app" THEN [tipo |-> "ValueError"]
             ELSE [tipo |-> "SystemExit", codigo |-> 1]

\* src/main.py asks first whether the calendar is to be used at all
EscolherPeriodo ==
    /\ pc = "inicio"
    /\ \E today \in Dias, opcao \in Opcoes(entry), usar_teams \in BOOLEAN :
         /\ entry = "app" => usar_teams
         /\ IF ~usar_teams THEN
                /\ pc' = "fim"
                /\ UNCHANGED <<varsPeriodo, erro>>
            ELSE LET r == escolher_periodo(opcao, today) IN
                /\ hoje' = Som(today)
                /\ periodo_opcao' = Som(opcao)
                /\ IF r.ok THEN
                       /\ periodo_data_inicial' = Som(r.inicial)
                       /\ periodo_data_final' = Som(r.final)
                       /\ pc' = "periodo"
                       /\ erro' = erro
                   ELSE
                       /\ UNCHANGED <<periodo_data_inicial, periodo_data_final>>
                       /\ Levanta(ErroOpcao)
    /\ UNCHANGED <<entry, varsUI, varsFora, varsAnterior, combinados_texto, varsFetch, varsReq,
                   varsReunioes, varsDf, varsBr, varsTexto, varsResumo>>

PeriodoAnterior ==
    /\ pc = "periodo"
    /\ periodo_data_inicial_anterior' = Som(periodo_anterior(periodo_data_inicial.v))
    /\ periodo_data_final_anterior' = Som(periodo_anterior(periodo_data_final.v))
    /\ pc' = "combinados"
    /\ UNCHANGED <<entry, varsUI, varsFora, varsPeriodo, combinados_texto, varsFetch, varsReq,
                   varsReunioes, varsDf, varsBr, varsTexto, varsResumo, erro>>

\* the commitment store is an external collaborator: its text is opaque
BuscarCombinados ==
    /\ pc = "combinados"
    /\ \E lido \in BOOLEAN :
         IF lido THEN
             /\ combinados_texto' = Som("combinados_texto")
             /\ pc' = "token"
             /\ erro' = erro
         ELSE
             /\ combinados_texto' = combinados_texto
             /\ Levanta([tipo |-> "OperationalError"])
    /\ UNCHANGED <<entry, varsUI, varsFora, varsPeriodo, varsAnterior, varsFetch, varsReq,
                   varsReunioes, varsDf, varsBr, varsTexto, varsResumo>>

-----------------------------------------------------------------------------
(* Token Provider and Event Fetcher: get_access_token, get_calendar_events *)

StatusFalha == {401, 503}

\* src/app.py raises RuntimeError, src/main.py a plain Exception
ErroHttp == IF entry = "app" THEN "RuntimeError" ELSE "Exception"

\* truthiness of a text or None
Falso(x) == isna(x) \/ "vazia" \in DOMAIN x

\* the pages the calendar service may answer with as its k-th page, n
\* events of the window being left to deliver: a "value" array and, while
\* the chain is shorter than MaxPages, possibly a continuation link
Paginas(k, n) ==
    Junta(Campo("value", SeqsAte(EventosAmostra, n)),
          Campo("@odata.nextLink",
                {TextoVazio} \cup IF k < MaxPages THEN {[skiptoken |-> k]} ELSE {}))

\* an error answer carries a JSON body with neither "value" nor a link
Respostas(k, n) ==
    {[status_code |-> st, text |-> "corpo", json |-> [error |-> st]] : st \in StatusFalha}
        \cup {[status_code |-> 200, text |-> "corpo", json |-> d] : d \in Paginas(k, n)}

data_inicial == IF janela = "atual" THEN periodo_data_inicial.v
                ELSE periodo_data_inicial_anterior.v
data_final == IF janela = "atual" THEN periodo_data_final.v
              ELSE periodo_data_final_anterior.v

\* get_access_token, then the set-up of the first page request
GetAccessToken ==
    /\ pc = "token"
    /\ requests' = <<[tipo |-> "token"]>>
    /\ token_requests' = token_requests + 1
    /\ llm_requests' = llm_requests
    /\ \E status_code \in {200} \cup StatusFalha :
         IF status_code # 200 THEN
             /\ Levanta([tipo |-> ErroHttp, status_code |-> status_code,
                         text |-> "corpo"])
             /\ falha_http' = Som([tipo |-> "token", status_code |-> status_code])
             /\ UNCHANGED <<access_token, url, params, events, served, links>>
         ELSE
             /\ falha_http' = falha_http
             /\ access_token' = Som([bearer |-> token_requests'])
             /\ url' = Som([calendarView |-> Email])
             /\ params' = Som([startDateTime |-> [data |-> data_inicial,
                                                  hour |-> 0, minute |-> 0],
                               endDateTime |-> [data |-> data_final,
                                                hour |-> 23, minute |-> 59],
                               orderby |-> "start/dateTime"])
             /\ events' = <<>>
             /\ served' = <<>>
             /\ links' = <<>>
             /\ pc' = "pagina"
             /\ erro' = erro
    /\ UNCHANGED <<entry, varsUI, varsFora, varsPeriodo, varsAnterior, combinados_texto, janela,
                   varsReunioes, varsDf, varsBr, varsTexto, varsResumo>>

\* the page replaces what was accumulated instead of extending it
extend_substitui(evs, data) == Get(data, "value", <<>>)

\* events.extend(data.get("value", []))
extend(evs, data) == evs \o Get(data, "value", <<>>)

\* only server errors are taken for failures
falha_pagina_5xx(status_code) == status_code >= 500

\* if resp.status_code != 200
falha_pagina(status_code) == status_code # 200

\* a failed page leaves the loop with what was accumulated instead of raising
turno_break(evs, resp) ==
    IF falha_pagina(resp.status_code) THEN [fim |-> "return", events |-> evs]
    ELSE LET data == resp.json
             next_link == Get(data, "@odata.nextLink", Nulo)
         IN  IF Falso(next_link)
             THEN [fim |-> "return", events |-> extend(evs, data)]
             ELSE [fim |-> "continue", events |-> extend(evs, data),
                   url |-> next_link]

\* the loop stops after its first page, whatever the page's link
turno_uma_pagina(evs, resp) ==
    IF falha_pagina(resp.status_code) THEN
        [fim |-> "raise",
         erro |-> [tipo |-> ErroHttp, status_code |-> resp.status_code,
                   text |-> resp.text]]
    ELSE [fim |-> "return", events |-> extend(evs, resp.json)]

\* one turn of the while loop on the answer resp, evs being accumulated so
\* far: raise, return the list, or go on with the continuation link
turno(evs, resp) ==
    IF falha_pagina(resp.status_code) THEN
        [fim |-> "raise",
         erro |-> [tipo |-> ErroHttp, status_code |-> resp.status_code,
                   text |-> resp.text]]
    ELSE LET data == resp.json
             next_link == Get(data, "@odata.nextLink", Nulo)
         IN  IF Falso(next_link)
             THEN [fim |-> "return", events |-> extend(evs, data)]
             ELSE [fim |-> "continue", events |-> extend(evs, data),
                   url |-> next_link]

\* the function's return value reaches the caller's variable
Retorna(evs) ==
    /\ reunioes_atual' = IF janela = "atual" THEN Som(evs) ELSE reunioes_atual
    /\ reunioes_anterior' = IF janela = "atual" THEN reunioes_anterior ELSE Som(evs)

\* a token is requested again before the page
requests_get_com_token(reqs, u, headers, p) ==
    reqs \o <<[tipo |-> "token"],
              [tipo |-> "calendario", url |-> u, params |-> p,
               authorization |-> headers.Authorization]>>
\* requests.get(url, headers=headers, params=params): one calendar request
requests_get(reqs, u, headers, p) ==
    Append(reqs, [tipo |-> "calendario", url |-> u, params |-> p,
                  authorization |-> headers.Authorization])

\* the query parameters stay for the next page
params_mantidos(p) == p
\* params = None once a continuation link is followed
params_seguinte(p) == Nulo

\* one page request and one turn of the loop on its answer
BuscarPagina ==
    /\ pc = "pagina"
    /\ requests' = requests_get(requests, url.v,
                                [Authorization |-> access_token.v], params.v)
    /\ UNCHANGED <<token_requests, llm_requests>>
    /\ \E resp \in Respostas(Len(served) + 1, MaxEvents - Len(events)) :
         LET t == turno(events, resp) IN
         /\ served' = IF resp.status_code = 200
                      THEN Append(served, Get(resp.json, "value", <<>>))
                      ELSE served
         /\ links' = IF resp.status_code = 200
                     THEN Append(links, Get(resp.json, "@odata.nextLink", Nulo))
                     ELSE links
         /\ falha_http' = IF resp.status_code = 200 \/ falha_http.def THEN falha_http
                          ELSE Som([tipo |-> "calendario",
                                    status_code |-> resp.status_code, text |-> resp.text])
         /\ IF t.fim = "raise" THEN
                /\ Levanta(t.erro)
                /\ access_token' = Nao
                /\ url' = Nao
                /\ params' = Nao
                /\ events' = <<>>
                /\ UNCHANGED varsReunioes
            ELSE IF t.fim = "return" THEN
                /\ Retorna(t.events)
                /\ access_token' = Nao
                /\ url' = Nao
                /\ params' = Nao
                /\ events' = <<>>
                /\ pc' = "normalizar"
                /\ erro' = erro
            ELSE
                /\ events' = t.events
                /\ url' = Som(t.url)
                /\ params' = Som(params_seguinte(params.v))
                /\ pc' = pc
                /\ erro' = erro
                /\ UNCHANGED <<access_token, varsReunioes>>
    /\ UNCHANGED <<entry, varsUI, varsFora, varsPeriodo, varsAnterior, combinados_texto, janela,
                   varsDf, varsBr, varsTexto, varsResumo>>

\* eventos_para_dataframe_v2 on the window just fetched
Normalizar ==
    /\ pc = "normalizar"
    /\ LET evs == IF janela = "atual" THEN reunioes_atual.v ELSE reunioes_anterior.v
           r == eventos_para_dataframe_v2(evs, Email, Nome, Email)
       IN  IF ~r.ok THEN
               /\ Levanta([tipo |-> r.erro])
               /\ UNCHANGED <<janela, varsDf>>
           ELSE
               /\ erro' = erro
               /\ IF janela = "atual" THEN
                      /\ df_reunioes' = Som(r.df)
                      /\ df_reunioes_anterior' = df_reunioes_anterior
                      /\ janela' = "anterior"
                      /\ pc' = "token"
                  ELSE
                      /\ df_reunioes_anterior' = Som(r.df)
                      /\ df_reunioes' = df_reunioes
                      /\ janela' = janela
                      /\ pc' = "ajustar"
    /\ served' = <<>>
    /\ links' = <<>>
    /\ requests' = <<>>
    /\ UNCHANGED <<entry, varsUI, varsFora, varsPeriodo, varsAnterior, combinados_texto, access_token,
                   url, params, events, token_requests, llm_requests, falha_http,
                   varsReunioes,
                   varsBr, varsTexto, varsResumo>>

\* ajustar_horarios_brasilia on both windows
Ajustar ==
    /\ pc = "ajustar"
    /\ LET a == ajustar_horarios_brasilia(df_reunioes.v)
           b == ajustar_horarios_brasilia(df_reunioes_anterior.v)
       IN  IF ~a.ok THEN
               /\ Levanta([tipo |-> a.erro])
               /\ UNCHANGED varsBr
           ELSE IF ~b.ok THEN
               /\ Levanta([tipo |-> b.erro])
               /\ df_reunioes_br' = Som(a.df)
               /\ df_reunioes_anterior_br' = df_reunioes_anterior_br
           ELSE
               /\ df_reunioes_br' = Som(a.df)
               /\ df_reunioes_anterior_br' = Som(b.df)
               /\ pc' = "texto"
               /\ erro' = erro
    /\ UNCHANGED <<entry, varsUI, varsFora, varsPeriodo, varsAnterior, combinados_texto, varsFetch,
                   varsReq, varsReunioes, varsDf, varsTexto, varsResumo>>

\* gerar_texto_reunioes on both windows
GerarTextos ==
    /\ pc = "texto"
    /\ texto_reunioes' = Som(gerar_texto_reunioes(df_reunioes_br.v))
    /\ texto_reunioes_anterior' = Som(gerar_texto_reunioes(df_reunioes_anterior_br.v))
    /\ pc' = "resumo"
    /\ UNCHANGED <<entry, varsUI, varsFora, varsPeriodo, varsAnterior, combinados_texto, varsFetch,
                   varsReq, varsReunioes, varsDf, varsBr, varsResumo, erro>>

-----------------------------------------------------------------------------
(* Summary Generator: gerar_resumo_com_base_em_reunioes_comb.              *)

\* what the model may answer: a text is its body and whether blanks or line
\* breaks surround the body; the body is a JSON object, prose, or nothing
Completions ==
    {[corpo |-> c, brancos |-> b] : c \in {"{\"resumo\": 1}", "Resumo da semana:", ""},
                                    b \in BOOLEAN}

\* the text is kept with the blanks around it
strip_nada(texto) == texto
\* str.strip() drops the blanks around the body
strip(texto) == [texto EXCEPT !.brancos = FALSE]
json_valido(texto) == texto.corpo = "{\"resumo\": 1}"
json_loads(texto) == IF json_valido(texto) THEN [resumo |-> 1] ELSE Nulo

GerarResumo ==
    /\ pc = "resumo"
    /\ llm_requests' = llm_requests + 1
    /\ UNCHANGED <<requests, token_requests, falha_http>>
    /\ \E falha \in BOOLEAN, content \in Completions :
         IF falha THEN
             /\ Levanta([tipo |-> "APIError"])
             /\ UNCHANGED varsResumo
         ELSE
             /\ completion' = Som(content)
             /\ raw_text' = Som(strip(content))
             /\ respostas_json' = Som(json_loads(strip(content)))
             /\ pc' = "fim"
             /\ erro' = erro
    /\ UNCHANGED <<entry, varsUI, varsFora, varsPeriodo, varsAnterior, combinados_texto, varsFetch,
                   varsReunioes, varsDf, varsBr, varsTexto>>

Next ==
    \/ EscolherPeriodo
    \/ PeriodoAnterior
    \/ BuscarCombinados
    \/ GetAccessToken
    \/ BuscarPagina
    \/ Normalizar
    \/ Ajustar
    \/ GerarTextos
    \/ GerarResumo

Spec == Init /\ [][Next]_vars

-----------------------------------------------------------------------------
(* One call of get_calendar_events on its own, from its first statement to *)
(* its return or raise.                                                    *)

\* the run as it stands when the first window is about to be fetched: the
\* periods resolved and the commitments read
InitFetch ==
    /\ entry \in Entradas
    /\ pc = "token"
    /\ \E today \in Dias, opcao \in 1..3 :
         LET r == escolher_periodo(opcao, today)
         IN  /\ hoje = Som(today)
             /\ periodo_opcao = Som(opcao)
             /\ periodo_data_inicial = Som(r.inicial)
             /\ periodo_data_final = Som(r.final)
             /\ periodo_data_inicial_anterior = Som(periodo_anterior(r.inicial))
             /\ periodo_data_final_anterior = Som(periodo_anterior(r.final))
    /\ combinados_texto = Som("combinados_texto")
    /\ janela = "atual"
    /\ access_token = Nao
    /\ url = Nao
    /\ params = Nao
    /\ events = <<>>
    /\ served = <<>>
    /\ links = <<>>
    /\ requests = <<>>
    /\ token_requests = 0
    /\ llm_requests = 0
    /\ falha_http = Nao
    /\ reunioes_atual = Nao
    /\ reunioes_anterior = Nao
    /\ df_reunioes = Nao
    /\ df_reunioes_anterior = Nao
    /\ df_reunioes_br = Nao
    /\ df_reunioes_anterior_br = Nao
    /\ texto_reunioes = Nao
    /\ texto_reunioes_anterior = Nao
    /\ respostas_json = Nao
    /\ raw_text = Nao
    /\ completion = Nao
    /\ df_reunioes_br_2 = Nao
    /\ session_state = IF entry = "app" THEN SessaoDoResumo ELSE EmptyDict
    /\ pagina = IF entry = "app" THEN "principal" ELSE "nenhuma"
    /\ evento = [tipo |-> IF entry = "app" THEN "gerar" ELSE "nenhum"]
    /\ erro = Nao

NextFetch ==
    \/ GetAccessToken
    \/ BuscarPagina

\* get_calendar_events is sequential code around blocking requests: once the
\* token or a page has been requested and the service answers, the call takes
\* its next step
SpecFetch ==
    InitFetch /\ [][NextFetch]_vars /\ WF_vars(GetAccessToken) /\ WF_vars(BuscarPagina)

-----------------------------------------------------------------------------
(* The normalizer, the canonicalizer and the synthesizer applied, in the   *)
(* pipeline's order, to one arbitrary list of raw events.                  *)

\* the input: a list of at most MaxEvents events, sample events with at
\* most one position holding an arbitrary raw event
InitFn ==
    /\ entry = "app"
    /\ pc = "fn_inicio"
    /\ \E l \in SeqsAte(EventosAmostra, MaxEvents), i \in 0..MaxEvents, e \in RawEvents :
         /\ i <= Len(l)
         /\ reunioes_atual = Som(IF i = 0 THEN l ELSE [l EXCEPT ![i] = e])
    /\ session_state = EmptyDict
    /\ pagina = "nenhuma"
    /\ evento = [tipo |-> "nenhum"]
    /\ RunInit

FnNormalizar ==
    /\ pc = "fn_inicio"
    /\ LET r == eventos_para_dataframe_v2(reunioes_atual.v, Email, Nome, Email)
       IN  IF r.ok THEN
               /\ df_reunioes' = Som(r.df)
               /\ pc' = "fn_normalizado"
               /\ erro' = erro
           ELSE
               /\ df_reunioes' = df_reunioes
               /\ pc' = "fn_erro"
               /\ erro' = Som([tipo |-> r.erro])
    /\ UNCHANGED <<entry, varsUI, varsFora, varsPeriodo, varsAnterior, combinados_texto, varsFetch,
                   varsReq, varsReunioes, df_reunioes_anterior, varsBr, varsTexto,
                   varsResumo>>

FnAjustar ==
    /\ pc = "fn_normalizado"
    /\ LET r == ajustar_horarios_brasilia(df_reunioes.v)
       IN  IF r.ok THEN
               /\ df_reunioes_br' = Som(r.df)
               /\ pc' = "fn_ajustado"
               /\ erro' = erro
           ELSE
               /\ df_reunioes_br' = df_reunioes_br
               /\ pc' = "fn_erro"
               /\ erro' = Som([tipo |-> r.erro])
    /\ UNCHANGED <<entry, varsUI, varsFora, varsPeriodo, varsAnterior, combinados_texto, varsFetch,
                   varsReq, varsReunioes, varsDf, df_reunioes_anterior_br, varsTexto,
                   varsResumo>>

FnGerarTexto ==
    /\ pc = "fn_ajustado"
    /\ texto_reunioes' = Som(gerar_texto_reunioes(df_reunioes_br.v))
    /\ pc' = "fn_texto"
    /\ UNCHANGED <<entry, varsUI, varsFora, varsPeriodo, varsAnterior, combinados_texto, varsFetch,
                   varsReq, varsReunioes, varsDf, varsBr, texto_reunioes_anterior,
                   varsResumo, erro>>

\* ajustar_horarios_brasilia applied to the frame it returned
FnAjustarDeNovo ==
    /\ pc = "fn_ajustado"
    /\ LET r == ajustar_horarios_brasilia(df_reunioes_br.v)
       IN  IF r.ok THEN
               /\ df_reunioes_br_2' = Som(r.df)
               /\ pc' = "fn_ajustado_2"
               /\ erro' = erro
           ELSE
               /\ df_reunioes_br_2' = df_reunioes_br_2
               /\ pc' = "fn_erro"
               /\ erro' = Som([tipo |-> r.erro])
    /\ UNCHANGED <<entry, varsUI, varsPeriodo, varsAnterior, combinados_texto, varsFetch,
                   varsReq, varsReunioes, varsDf, varsBr, varsTexto, varsResumo>>

\* gerar_texto_reunioes applied to the frame of the normalizer as it is
FnGerarTextoDireto ==
    /\ pc = "fn_normalizado"
    /\ texto_reunioes' = Som(gerar_texto_reunioes(df_reunioes.v))
    /\ pc' = "fn_texto_direto"
    /\ UNCHANGED <<entry, varsUI, varsFora, varsPeriodo, varsAnterior, combinados_texto,
                   varsFetch, varsReq, varsReunioes, varsDf, varsBr,
                   texto_reunioes_anterior, varsResumo, erro>>

NextFn ==
    \/ FnNormalizar
    \/ FnAjustar
    \/ FnAjustarDeNovo
    \/ FnGerarTexto
    \/ FnGerarTextoDireto

SpecFn == InitFn /\ [][NextFn]_vars

-----------------------------------------------------------------------------
(* The Streamlit entry point: main, pagina_login, pagina_principal and     *)
(* login_db.  One action is one run of the script from the user's action   *)
(* to the page it leaves on the screen, st.rerun() included.               *)

varsPipeline == <<varsPeriodo, varsAnterior, combinados_texto, varsFetch, varsReq,
                  varsReunioes, varsDf, varsBr, varsTexto, varsResumo, varsFora, erro>>

lower(texto) == [texto EXCEPT !.caixa = FALSE]

\* str(row["id"])
str(n) == CASE n = 1 -> "1" [] n = 2 -> "2" [] OTHER -> "n"

\* SELECT ... FROM person WHERE email = :email
read_sql(email_norm) == {p \in person : Texto(p.email) = email_norm}

\* the password is not compared with the id
login_db_sem_senha(email, senha, conecta) ==
    LET email_norm == lower(strip(email))
        df == read_sql(email_norm)
    IN  IF ~conecta THEN [ok |-> FALSE, erro |-> "OperationalError"]
        ELSE IF df = {} THEN [ok |-> FALSE, erro |-> "ValueError"]
        ELSE LET row == CHOOSE p \in df : TRUE
             IN  [ok |-> TRUE, email_norm |-> email_norm, nome |-> row.nome,
                  area |-> row.area, cargo |-> row.posicao]

\* [ok |-> TRUE, email_norm, nome, area, cargo] or [ok |-> FALSE, erro];
\* conecta: whether engine.connect() reaches the database
login_db(email, senha, conecta) ==
    LET email_norm == lower(strip(email))
        senha_norm == strip(senha)
        df == read_sql(email_norm)
    IN  IF ~conecta THEN [ok |-> FALSE, erro |-> "OperationalError"]
        ELSE IF df = {} THEN [ok |-> FALSE, erro |-> "ValueError"]
        ELSE LET row == CHOOSE p \in df : TRUE
                 id_banco == str(row.id)
             IN  IF senha_norm # [corpo |-> id_banco, brancos |-> FALSE]
                 THEN [ok |-> FALSE, erro |-> "ValueError"]
                 ELSE [ok |-> TRUE, email_norm |-> email_norm, nome |-> row.nome,
                       area |-> row.area, cargo |-> row.posicao]

\* the loop of "Sair": del st.session_state[k] for each key present
sair_sessao(ss) == [k \in DOMAIN ss \ ChavesDaSessao |-> ss[k]]

\* main(): the default of logged_in, then the page chosen by it
main(ss) ==
    LET ss1 == IF "logged_in" \notin DOMAIN ss
               THEN [k \in DOMAIN ss \cup {"logged_in"} |->
                        IF k = "logged_in" THEN FALSE ELSE ss[k]]
               ELSE ss
    IN  [session_state |-> ss1,
         pagina |-> IF ~ss1["logged_in"] THEN "login" ELSE "principal"]

\* what the user may type in the login form
EmailsDigitados ==
    {[corpo |-> c, caixa |-> x, brancos |-> b] :
        c \in {Email, "bia@empresa.com", "zeca@fora.com"}, x \in BOOLEAN, b \in BOOLEAN}
SenhasDigitadas ==
    {[corpo |-> c, brancos |-> b] : c \in {"1", "2", ""}, b \in BOOLEAN}

InitUI ==
    /\ entry = "app"
    /\ pc = "ui"
    /\ reunioes_atual = Nao
    /\ session_state = EmptyDict
    /\ pagina = "nenhuma"
    /\ evento = [tipo |-> "nenhum"]
    /\ RunInit

\* the page is opened, or the script runs again with no button pressed; a
\* handler still running is stopped by the new run
Abrir ==
    /\ pc \in {"ui", "inicio"}
    /\ LET r == main(session_state)
       IN  /\ session_state' = r.session_state
           /\ pagina' = r.pagina
    /\ evento' = [tipo |-> "abrir"]
    /\ pc' = "ui"
    /\ UNCHANGED <<entry, reunioes_atual, varsPipeline>>

\* "Entrar" on the login form: main() -> pagina_login() with submit true;
\* on success st.rerun() runs main() again
Entrar ==
    /\ pc = "ui"
    /\ pagina = "login"
    /\ main(session_state).pagina = "login"
    /\ \E email \in EmailsDigitados, senha \in SenhasDigitadas, conecta \in BOOLEAN :
         LET antes == main(session_state).session_state
             r == login_db(email, senha, conecta)
         IN  /\ evento' = [tipo |-> "entrar", email |-> email, senha |-> senha,
                           conecta |-> conecta]
             /\ IF r.ok THEN
                    LET depois == main(entrar_sessao(antes, r))
                    IN  /\ session_state' = depois.session_state
                        /\ pagina' = depois.pagina
                ELSE
                    /\ session_state' = antes
                    /\ pagina' = "login"
    /\ pc' = "ui"
    /\ UNCHANGED <<entry, reunioes_atual, varsPipeline>>

\* "Sair" on the main page: the keys are deleted and st.rerun() runs main()
Sair ==
    /\ pc \in {"ui", "inicio"}
    /\ pagina = "principal"
    /\ main(session_state).pagina = "principal"
    /\ LET depois == main(sair_sessao(main(session_state).session_state))
       IN  /\ session_state' = depois.session_state
           /\ pagina' = depois.pagina
    /\ evento' = [tipo |-> "sair"]
    /\ pc' = "ui"
    /\ UNCHANGED <<entry, reunioes_atual, varsPipeline>>

\* "Gerar resumo" on the main page starts the summary pipeline
ClicarGerarResumo ==
    /\ pc = "ui"
    /\ pagina = "principal"
    /\ main(session_state).pagina = "principal"
    /\ session_state' = main(session_state).session_state
    /\ pagina' = "principal"
    /\ evento' = [tipo |-> "gerar"]
    /\ pc' = "inicio"
    /\ UNCHANGED <<entry, reunioes_atual, varsPipeline>>

\* the handler of "Gerar resumo" ends, with the summary or one st.error
FimDoResumo ==
    /\ pc = "inicio"
    /\ pc' = "ui"
    /\ UNCHANGED <<entry, reunioes_atual, varsPipeline, varsUI>>

\* the browser opens a new session: st.session_state starts empty
NovaSessao ==
    /\ pc \in {"ui", "inicio"}
    /\ pagina # "nenhuma"
    /\ session_state' = EmptyDict
    /\ pagina' = "nenhuma"
    /\ evento' = [tipo |-> "nenhum"]
    /\ pc' = "ui"
    /\ UNCHANGED <<entry, reunioes_atual, varsPipeline>>

NextUI ==
    \/ Abrir
    \/ Entrar
    \/ Sair
    \/ ClicarGerarResumo
    \/ FimDoResumo
    \/ NovaSessao

SpecUI == InitUI /\ [][NextUI]_vars

-----------------------------------------------------------------------------
(* Properties.                                                             *)

\* the pages' arrays laid end to end
RECURSIVE Concat(_)
Concat(ss) == IF Len(ss) = 0 THEN <<>> ELSE Head(ss) \o Concat(Tail(ss))

\* the list the call in progress hands to its caller
retorno == IF janela = "atual" THEN reunioes_atual ELSE reunioes_anterior

\* C1: when get_calendar_events returns (every page answered 200, the last
\* one without a continuation link) its result is the concatenation of the
\* pages' "value" arrays, in page order and in within-page order.
C1_RetornaConcatenacao ==
    pc = "normalizar" => retorno = Som(Concat(served))

C1_DuasPaginas ==
    /\ pc = "normalizar"
    /\ served = <<(<<EventoCompleto>>), (<<EventoMinimo>>)>>

\* C2: a page request answered with a status other than 200 ends
\* get_calendar_events in a RuntimeError carrying that status and body, and
\* the caller receives no list, whatever earlier pages delivered.
C2_FalhaDePaginaNaoRetorna ==
    (falha_http.def /\ falha_http.v.tipo = "calendario") =>
        /\ pc = "erro"
        /\ erro = Som([tipo |-> IF entry = "app" THEN "RuntimeError" ELSE "Exception",
                       status_code |-> falha_http.v.status_code,
                       text |-> falha_http.v.text])
        /\ retorno = Nao

C2_FalhaAposPaginaComEventos ==
    /\ pc = "erro"
    /\ falha_http.def
    /\ falha_http.v.tipo = "calendario"
    /\ Len(served) >= 1
    /\ served[1] # <<>>

\* C3: the language model is invoked only after both windows were fetched
\* successfully; once a token or page request has failed, the run is in its
\* error end, the model has not been invoked and there is no summary.
C3_ModeloSoAposDuasJanelas ==
    /\ llm_requests > 0 =>
           /\ reunioes_atual.def
           /\ reunioes_anterior.def
           /\ ~falha_http.def
           /\ token_requests = 2
    /\ falha_http.def =>
           /\ pc = "erro"
           /\ erro.def
           /\ erro.v.tipo \in {"RuntimeError", "Exception"}
           /\ erro.v.status_code = falha_http.v.status_code
           /\ llm_requests = 0
           /\ raw_text = Nao
           /\ respostas_json = Nao

C3_FalhaNaJanelaAnterior ==
    /\ pc = "erro"
    /\ falha_http.def
    /\ janela = "anterior"
    /\ reunioes_atual.def
    /\ Len(reunioes_atual.v) > 0
    /\ llm_requests = 0

\* C4: ajustar_horarios_brasilia returns a result for every collection the
\* normalizer produces, the one produced from no events included.
C4_CanonicalizadorNuncaFalha ==
    df_reunioes.def => pc # "fn_erro"

\* the first non-empty join link among onlineMeetingUrl, joinUrl and
\* onlineMeeting.joinUrl, "" when there is none
PrimeiroLink(ev) ==
    LET a == Get(ev, "onlineMeetingUrl", "")
        b == Get(ev, "joinUrl", "")
        c == Get(Get(ev, "onlineMeeting", EmptyDict), "joinUrl", "")
    IN  IF a # "" /\ a # NoneStr THEN a
        ELSE IF b # "" /\ b # NoneStr THEN b
        ELSE IF c # "" /\ c # NoneStr THEN c
        ELSE ""

\* C5: an event with a non-empty join link under any of the three names is
\* normalized to reuniao_online = true with the first non-empty of them,
\* whatever isOnlineMeeting is.
C5_LinkImplicaOnline ==
    df_reunioes.def =>
        \A i \in 1..Len(df_reunioes.v.rows) :
            PrimeiroLink(reunioes_atual.v[i]) # "" =>
                /\ df_reunioes.v.rows[i].reuniao_online
                /\ df_reunioes.v.rows[i].link_reuniao_online
                       = PrimeiroLink(reunioes_atual.v[i])

LinkAninhado(ev) == Get(Get(ev, "onlineMeeting", EmptyDict), "joinUrl", "")

\* C6: an event without isOnlineMeeting and with a non-empty
\* onlineMeeting.joinUrl is normalized to reuniao_online = true with that link.
C6_LinkAninhadoSemFlag ==
    df_reunioes.def =>
        \A i \in 1..Len(df_reunioes.v.rows) :
            LET ev == reunioes_atual.v[i] IN
            ("isOnlineMeeting" \notin DOMAIN ev /\ LinkAninhado(ev) # "") =>
                /\ df_reunioes.v.rows[i].reuniao_online
                /\ df_reunioes.v.rows[i].link_reuniao_online = LinkAninhado(ev)

C6_EventoSemFlagComLink ==
    /\ pc = "fn_normalizado"
    /\ \E i \in 1..Len(reunioes_atual.v) :
         /\ "isOnlineMeeting" \notin DOMAIN reunioes_atual.v[i]
         /\ Get(reunioes_atual.v[i], "onlineMeetingUrl", "") = "https://teams/omu"
         /\ LinkAninhado(reunioes_atual.v[i]) = "https://teams/nested"

\* C7: option 2 yields, for any today, a start on weekday 0 and an end
\* exactly 4 days after the start.
C7_SemanaAtualSegundaASexta ==
    (periodo_opcao.def /\ periodo_opcao.v = 2 /\ periodo_data_inicial.def) =>
        /\ (periodo_data_inicial.v - 1) % 7 = 0
        /\ periodo_data_final.v = periodo_data_inicial.v + 4

C7_HojeDomingo ==
    /\ pc = "periodo"
    /\ periodo_opcao.v = 2
    /\ (hoje.v - 1) % 7 = 6

\* C8: the comparison window is the primary window with both bounds moved
\* back exactly 7 days, so both windows have the same length.
C8_JanelaAnteriorSeteDias ==
    periodo_data_inicial_anterior.def =>
        /\ periodo_data_inicial_anterior.v = periodo_data_inicial.v - 7
        /\ periodo_data_final_anterior.v = periodo_data_final.v - 7
        /\ periodo_data_final_anterior.v - periodo_data_inicial_anterior.v
               = periodo_data_final.v - periodo_data_inicial.v

C8_JanelaAnteriorCalculada ==
    /\ pc = "combinados"
    /\ periodo_opcao.v = 1
    /\ periodo_data_inicial_anterior.def
    /\ periodo_data_final_anterior.def

\* C9: option 3 yields start = (Monday of today's week) - 7 and end =
\* start + 4, the window of option 2 for the same today moved back 7 days.
C9_SemanaAnterior ==
    (periodo_opcao.def /\ periodo_opcao.v = 3 /\ periodo_data_inicial.def) =>
        LET segunda == hoje.v - ((hoje.v - 1) % 7)
            atual == escolher_periodo(2, hoje.v)
        IN  /\ periodo_data_inicial.v = segunda - 7
            /\ periodo_data_final.v = periodo_data_inicial.v + 4
            /\ periodo_data_inicial.v = atual.inicial - 7
            /\ periodo_data_final.v = atual.final - 7

C9_HojeSabado ==
    /\ pc = "periodo"
    /\ periodo_opcao.v = 3
    /\ (hoje.v - 1) % 7 = 5

\* a dereferenced field of the event is present but null
TemCampoNulo(ev) ==
    \E k \in DOMAIN ev \cap {"organizer", "start", "end", "location"} : isna(ev[k])

\* the record carries the event's own values and the defaults of its absent fields
RegistroDe(row, ev) ==
    /\ row.assunto = IF "subject" \in DOMAIN ev THEN ev["subject"] ELSE "(sem assunto)"
    /\ "organizer" \notin DOMAIN ev =>
           row.organizador_nome = "" /\ row.organizador_email = ""
    /\ "start" \notin DOMAIN ev =>
           row.inicio_datetime = Nulo /\ row.inicio_timezone = NoneStr
    /\ "end" \notin DOMAIN ev =>
           row.fim_datetime = Nulo /\ row.fim_timezone = NoneStr
    /\ "attendees" \notin DOMAIN ev =>
           row.participantes_emails = <<>> /\ row.participantes_nomes = <<>>
    /\ row.local = IF "location" \in DOMAIN ev /\ "displayName" \in DOMAIN ev["location"]
                   THEN ev["location"]["displayName"] ELSE ""
    /\ DOMAIN ev \cap {"isOnlineMeeting", "onlineMeetingUrl", "joinUrl",
                       "onlineMeeting"} = {} =>
           ~row.reuniao_online /\ row.link_reuniao_online = ""
    /\ row.user_id = Email

\* C10: for a list of events in which optional fields are absent the
\* normalizer does not raise and returns as many records as events, the i-th
\* from the i-th event, absent fields replaced by their defaults.
C10_NormalizadorTotal ==
    /\ (pc = "fn_erro" /\ ~df_reunioes.def) =>
           \E i \in 1..Len(reunioes_atual.v) : TemCampoNulo(reunioes_atual.v[i])
    /\ df_reunioes.def =>
           /\ Len(df_reunioes.v.rows) = Len(reunioes_atual.v)
           /\ \A i \in 1..Len(reunioes_atual.v) :
                  RegistroDe(df_reunioes.v.rows[i], reunioes_atual.v[i])

C10_MinimoECompleto ==
    /\ pc = "fn_normalizado"
    /\ reunioes_atual.v = <<EventoMinimo, EventoCompleto>>
    /\ df_reunioes.v.rows[1].assunto = "(sem assunto)"
    /\ df_reunioes.v.rows[2].assunto = "Planejamento"

\* the text the model returned is not a JSON document
TextoNaoJson == completion.def /\ completion.v.corpo # "{\"resumo\": 1}"

C12_UmTokenPorChamada ==
    /\ pc \in {"pagina", "normalizar"} =>
          /\ Len(requests) >= 1
          /\ requests[1].tipo = "token"
          /\ \A i \in 2..Len(requests) :
                /\ requests[i].tipo = "calendario"
                /\ requests[i].authorization = [bearer |-> token_requests]
          /\ token_requests = IF janela = "atual" THEN 1 ELSE 2
    /\ (reunioes_atual.def /\ reunioes_anterior.def) => token_requests = 2

C12_SegundaChamadaDuasPaginas ==
    /\ pc = "normalizar"
    /\ janela = "anterior"
    /\ Len(requests) = 3
    /\ token_requests = 2

\* C13: the canonicalizer applied to its own result gives, row by row, the
\* same start and end instants and the same timezone labels as applied once
C13_CanonicalizadorIdempotente ==
    df_reunioes_br_2.def =>
        /\ Len(df_reunioes_br_2.v.rows) = Len(df_reunioes_br.v.rows)
        /\ \A i \in 1..Len(df_reunioes_br.v.rows) :
              LET uma == df_reunioes_br.v.rows[i]
                  duas == df_reunioes_br_2.v.rows[i]
              IN  /\ duas.inicio_datetime = uma.inicio_datetime
                  /\ duas.fim_datetime = uma.fim_datetime
                  /\ duas.inicio_timezone = uma.inicio_timezone
                  /\ duas.fim_timezone = uma.fim_timezone

C13_NuloNaiveEZona ==
    /\ pc = "fn_ajustado_2"
    /\ \E i, j \in 1..Len(df_reunioes.v.rows) :
          /\ isna(df_reunioes.v.rows[i].inicio_datetime)
          /\ ~isna(df_reunioes.v.rows[j].inicio_datetime)
          /\ df_reunioes.v.rows[j].inicio_datetime.tz = "naive"
          /\ ~isna(df_reunioes.v.rows[j].fim_datetime)
          /\ df_reunioes.v.rows[j].fim_datetime.tz \notin {"naive", "America/Sao_Paulo"}
          /\ df_reunioes_br_2.v.rows[j].fim_datetime.tz = "America/Sao_Paulo"

\* the frame the synthesizer was applied to
FrameDoTexto == IF pc = "fn_texto_direto" THEN df_reunioes.v ELSE df_reunioes_br.v

\* C14: the synthesizer returns the empty text for an empty collection and,
\* for N events, N fragments, the i-th one of the i-th event, with exactly
\* one single space between consecutive fragments
C14_UmFragmentoPorEvento ==
    texto_reunioes.def =>
        LET N == Len(FrameDoTexto.rows)
            t == texto_reunioes.v
        IN  IF N = 0 THEN t = <<>>
            ELSE /\ Len(t) = 2 * N - 1
                 /\ \A i \in 1..N : t[2 * i - 1] = fragmento(FrameDoTexto.rows[i])
                 /\ \A i \in 1..(N - 1) : t[2 * i] = Lit(" ")

C14_ColecaoVazia ==
    /\ pc = "fn_texto_direto"
    /\ reunioes_atual.v = <<>>
    /\ df_reunioes.v.rows = <<>>
    /\ texto_reunioes = Som(<<>>)

\* the event carries no timestamp under the key: the key, or its dateTime,
\* is missing, or the dateTime is null or empty
SemInstante(ev, chave) ==
    LET campo == Get(ev, chave, EmptyDict)
    IN  /\ campo # Nulo
        /\ \/ "dateTime" \notin DOMAIN campo
           \/ campo["dateTime"] = Nulo
           \/ campo["dateTime"] = TextoVazio

\* C15: an event without start or end timestamp makes no stage fail: its
\* instant is null after the normalizer, still null after the canonicalizer
\* (applied once or twice), and its fragment reads "sem horário de início" /
\* "sem horário de término"
C15_InstanteAusenteNaoFalha ==
    LET evs == reunioes_atual.v IN
    /\ (pc = "fn_erro" /\ \E i \in 1..Len(evs) :
                              SemInstante(evs[i], "start") \/ SemInstante(evs[i], "end"))
           => \E i \in 1..Len(evs) : TemCampoNulo(evs[i])
    /\ \A i \in 1..Len(evs) :
          /\ SemInstante(evs[i], "start") =>
                /\ df_reunioes.def => df_reunioes.v.rows[i].inicio_datetime = Nulo
                /\ df_reunioes_br.def => df_reunioes_br.v.rows[i].inicio_datetime = Nulo
                /\ df_reunioes_br_2.def => df_reunioes_br_2.v.rows[i].inicio_datetime = Nulo
                /\ texto_reunioes.def =>
                       texto_reunioes.v[2 * i - 1].inicio_str = Lit("sem horário de início")
          /\ SemInstante(evs[i], "end") =>
                /\ df_reunioes.def => df_reunioes.v.rows[i].fim_datetime = Nulo
                /\ df_reunioes_br.def => df_reunioes_br.v.rows[i].fim_datetime = Nulo
                /\ df_reunioes_br_2.def => df_reunioes_br_2.v.rows[i].fim_datetime = Nulo
                /\ texto_reunioes.def =>
                       texto_reunioes.v[2 * i - 1].fim_str = Lit("sem horário de término")

C15_EventoSemInstantes ==
    /\ pc = "fn_texto"
    /\ reunioes_atual.v = <<EventoCompleto, EventoMinimo>>
    /\ df_reunioes_br.v.rows[2].inicio_datetime = Nulo
    /\ texto_reunioes.v[3].inicio_str = Lit("sem horário de início")
    /\ texto_reunioes.v[3].fim_str = Lit("sem horário de término")
    /\ texto_reunioes.v[1].inicio_str # Lit("sem horário de início")

\* C16: a selector other than 1, 2, 3 ends the period resolver in an error,
\* no period is returned, and the run has issued no token, calendar or
\* language-model request
C16_OpcaoInvalidaSemPedidos ==
    (periodo_opcao.def /\ periodo_opcao.v \notin {1, 2, 3}) =>
        /\ pc = "erro"
        /\ erro.def
        /\ erro.v.tipo \in {"ValueError", "SystemExit"}
        /\ periodo_data_inicial = Nao
        /\ periodo_data_final = Nao
        /\ periodo_data_inicial_anterior = Nao
        /\ periodo_data_final_anterior = Nao
        /\ token_requests = 0
        /\ requests = <<>>
        /\ llm_requests = 0

C16_OpcaoQuatro ==
    /\ periodo_opcao = Som(4)
    /\ hoje.def
    /\ pc = "erro"
    /\ erro = Som([tipo |-> "SystemExit", codigo |-> 1])

\* C17: within one fetch the first page request targets the calendar view
\* with startDateTime = start date 00:00, endDateTime = end date 23:59 and
\* the ordering; every later request targets the continuation link the
\* preceding page returned, with no query parameters; all page requests
\* carry the same Authorization header
C17_ParametrosSoNaPrimeiraPagina ==
    \A i \in 2..Len(requests) :
        /\ requests[i].authorization = requests[2].authorization
        /\ IF i = 2 THEN
               /\ requests[i].url = [calendarView |-> Email]
               /\ requests[i].params =
                      [startDateTime |-> [data |-> data_inicial, hour |-> 0, minute |-> 0],
                       endDateTime |-> [data |-> data_final, hour |-> 23, minute |-> 59],
                       orderby |-> "start/dateTime"]
           ELSE
               /\ i - 2 <= Len(links)
               /\ requests[i].url = links[i - 2]
               /\ requests[i].url # [calendarView |-> Email]
               /\ requests[i].params = Nulo

C17_SegundaPaginaPeloLink ==
    /\ pc = "normalizar"
    /\ janela = "atual"
    /\ Len(requests) = 3
    /\ requests[2].params # Nulo
    /\ requests[3].params = Nulo
    /\ requests[3].url = [skiptoken |-> 1]

\* a page's answer carries a continuation link
TemLink(link) == link # Nulo /\ link # TextoVazio

\* C18: the service's chain of links being finite, a get_calendar_events
\* call that has started eventually returns or raises; it has issued one
\* request per page reached; and it goes on exactly as long as the last page
\* answered carries a continuation link, having no page limit of its own
C18_FetchTermina ==
    /\ (pc \in {"token", "pagina"}) ~> (pc \in {"normalizar", "erro"})
    /\ [](pc \in {"pagina", "normalizar"} =>
            /\ Len(requests) = Len(served) + 1
            /\ Len(links) = Len(served)
            /\ \A k \in 1..(Len(links) - 1) : TemLink(links[k]))
    /\ [](pc = "pagina" /\ Len(links) >= 1 => TemLink(links[Len(links)]))
    /\ [](pc = "normalizar" => Len(links) >= 1 /\ ~TemLink(links[Len(links)]))
    /\ []((pc = "erro" /\ falha_http.def /\ falha_http.v.tipo = "calendario") =>
            Len(requests) = Len(served) + 2)

C18_TerminaNaSegundaPagina ==
    /\ pc = "normalizar"
    /\ Len(links) = 2
    /\ TemLink(links[1])
    /\ ~TemLink(links[2])
    /\ Len(requests) = 3

Logado == "logged_in" \in DOMAIN session_state /\ session_state["logged_in"] = TRUE

\* the credentials typed belong to a row of person and the database answers
CredenciaisValidas(e) ==
    /\ e.conecta
    /\ \E p \in person : p.email = e.email.corpo /\ str(p.id) = e.senha.corpo

\* C19: the summary pipeline starts, and runs, only while logged_in is true;
\* logged_in turns true only by an "Entrar" whose credentials login_db
\* accepts, and the session then holds that user's email; after a failed
\* "Entrar" logged_in is false and the login page is shown; after "Sair" the
\* identity keys are gone and the login page is shown
C19_ResumoSoComLogin ==
    /\ [](pc = "inicio" => Logado)
    /\ [](pagina = "principal" => Logado)
    /\ [][(pc # "inicio" /\ pc' = "inicio") => (Logado /\ Logado')]_vars
    /\ [][(~Logado /\ Logado') =>
             /\ evento'.tipo = "entrar"
             /\ CredenciaisValidas(evento')
             /\ session_state'["email"].corpo = evento'.email.corpo]_vars
    /\ []((evento.tipo = "entrar" /\ ~CredenciaisValidas(evento)) =>
             /\ ~Logado
             /\ pagina = "login"
             /\ DOMAIN session_state \cap {"email", "nome", "area", "cargo"} = {})
    /\ [](evento.tipo = "sair" =>
             /\ ~Logado
             /\ pagina = "login"
             /\ DOMAIN session_state \cap {"email", "nome", "area", "cargo"} = {})

C19_SaiuDepoisDeEntrar ==
    /\ evento.tipo = "sair"
    /\ pagina = "login"
    /\ session_state = [k \in {"logged_in"} |-> FALSE]

====
